---- MODULE Spec2Model ----
(***************************************************************************)
(* faust.transport.base.Consumer: decode / dispatch path (on_message),     *)
(* lifetime-triggered acknowledgment (EventRef, track_event,               *)
(* on_event_ready) and the periodic commit loop (_commit_handler,          *)
(* _should_commit, _new_offset).                                           *)
(* faust.tables.Table: the K/V store folded from messages (on_message)     *)
(* and its item accessors.                                                 *)
(***************************************************************************)
EXTENDS Integers, Sequences, FiniteSets, TLC

\* Offsets of delivered messages range over 0..MaxOffset.
MaxOffset == 3
\* Longest acknowledged list the pure-function specification starts from.
MaxLen == 4
\* Table values range over 1..MaxValue.
MaxValue == 2

\* `_current_offset: int = None` -- the "none yet" value of the commit state.
None == -1
\* `raise IndexError()` in _new_offset -- the "nothing to commit" outcome.
IndexError == -2

Offsets == 0..MaxOffset

VARIABLES
    state,                  \* Service lifecycle: Created / Running / Stopped
    topic,                  \* Topic: [topics, pattern] are set or not
    callback,               \* a callback was passed to the constructor
    init_raised,            \* the exception Consumer.__init__ raised
    _key_serializer,        \* a key serializer is configured
    on_key_decode_error,    \* a key-decode-error handler was supplied
    on_value_decode_error,  \* a value-decode-error handler was supplied
    _dirty_events,          \* list of EventRef: [offset, alive]
    _acked,                 \* list of acknowledged offsets
    _current_offset,        \* None or the offset last handed to _commit
    commit_pc,              \* position of the _commit_handler task
    offset,                 \* local `offset` of _commit_handler
    commit_log,             \* calls of the backend commit: [offset, status]
    rx_pc,                  \* position of the running on_message coroutine
    message,                \* the message on_message was last called with
    raised,                 \* how the last on_message ended
    handler_calls,          \* decode-error handler calls for `message`
    callback_calls,         \* application callback calls for `message`
    last_delivered,         \* highest offset the backend has delivered
    _state,                 \* Table._state: the K/V store
    process,                \* the Table's process(key, value) transform
    table_pc,               \* position of the running Table.on_message
    table_msg,              \* (key, value) Table.on_message was called with
    table_op,               \* the last Table operation
    table_raised,           \* the exception the last Table operation raised
    table_result            \* the value the last Table get returned

vars == <<state, topic, callback, init_raised, _key_serializer,
          on_key_decode_error, on_value_decode_error,
          _dirty_events, _acked, _current_offset, commit_pc, offset,
          commit_log, rx_pc, message, raised, handler_calls, callback_calls,
          last_delivered, _state, process, table_pc, table_msg, table_op,
          table_raised, table_result>>

config_vars == <<topic, callback, init_raised, _key_serializer,
                 on_key_decode_error, on_value_decode_error>>
table_vars == <<_state, process, table_pc, table_msg, table_op, table_raised,
                table_result>>
commit_vars == <<_current_offset, commit_pc, offset, commit_log>>
rx_vars == <<rx_pc, message, raised, handler_calls, callback_calls,
             last_delivered>>

NoMessage == [offset |-> None, key_ok |-> TRUE, value_ok |-> TRUE]

\* Table keys and values.
Keys == {"a", "b"}
Values == 1..MaxValue

\* `self._state = {}`
EmptyStore == [k \in {} |-> 0]

NoTableMsg == [key |-> "", value |-> 0]
NoTableOp == [name |-> "none", key |-> ""]

\* Table.on_init: an empty store, no operation run yet.
on_init ==
    /\ _state = EmptyStore
    /\ table_pc = "idle"
    /\ table_msg = NoTableMsg
    /\ table_op = NoTableOp
    /\ table_raised = "none"
    /\ table_result = 0

Identity == [k \in Keys, v \in Values |-> v]

\* ------------------------------------------------------------------------
\* Python list helpers

\* acked[j] for a Python index j, negative indices counting from the end.
PyIndex(s, j) == IF j < 0 THEN s[Len(s) + j + 1] ELSE s[j + 1]

RECURSIVE Insert(_, _)
Insert(s, x) ==
    IF s = <<>> THEN <<x>>
    ELSE IF x < Head(s) THEN <<x>> \o s
    ELSE <<Head(s)>> \o Insert(Tail(s), x)

\* list.sort()
RECURSIVE Sort(_)
Sort(s) == IF s = <<>> THEN <<>> ELSE Insert(Sort(Tail(s)), Head(s))

IsSorted(s) == \A i \in 1..(Len(s) - 1) : s[i] <= s[i + 1]

\* ------------------------------------------------------------------------
\* Offset / commit logic

\* The for/else scan of _new_offset from index i on.
RECURSIVE NewOffsetScan(_, _)
NewOffsetScan(acked, i) ==
    IF i >= Len(acked) THEN IndexError
    ELSE IF PyIndex(acked, i) # PyIndex(acked, i - 1) THEN PyIndex(acked, i)
    ELSE NewOffsetScan(acked, i + 1)

\* A gap scan that starts at index 1 and demands acked[i] = acked[i-1] + 1,
\* so that a repeated offset counts as a gap.
RECURSIVE StrictScan(_, _)
StrictScan(acked, i) ==
    IF i >= Len(acked) THEN PyIndex(acked, i - 1)
    ELSE IF PyIndex(acked, i) # PyIndex(acked, i - 1) + 1
         THEN PyIndex(acked, i - 1)
    ELSE StrictScan(acked, i + 1)

_new_offset_strict(acked) ==
    IF acked = <<>> THEN IndexError ELSE StrictScan(acked, 1)

\* An empty list answered with offset 0 instead of IndexError.
_new_offset_default(acked) ==
    IF acked = <<>> THEN 0 ELSE NewOffsetScan(acked, 0)

\* The offset after the safe one returned, as a "next offset to read".
_new_offset_next(acked) ==
    IF NewOffsetScan(acked, 0) = IndexError THEN IndexError
    ELSE NewOffsetScan(acked, 0) + 1

_new_offset(acked) == NewOffsetScan(acked, 0)

\* `>=` written for `>`.
_should_commit_ge(cur, off) == cur = None \/ (off # 0 /\ off >= cur)

_should_commit(cur, off) == cur = None \/ (off # 0 /\ off > cur)

\* The append without the sort.
on_event_ready_unsorted(acked, off) == Append(acked, off)

\* The offset taken from the EventRef tracked last, not from `ref`.
on_event_ready_latest(acked, off) ==
    Sort(Append(acked, _dirty_events[Len(_dirty_events)].offset))

on_event_ready(acked, off) == Sort(Append(acked, off))

\* No EventRef appended.
track_event_skipped(events, off) == events

track_event(events, off) == Append(events, [offset |-> off, alive |-> TRUE])

\* ------------------------------------------------------------------------
\* Initial state: a constructed Consumer, not yet started.

Init ==
    /\ state = "Created"
    /\ topic = [topics |-> TRUE, pattern |-> FALSE]
    /\ callback = TRUE
    /\ init_raised = "none"
    /\ process = Identity
    /\ on_init
    /\ _key_serializer \in BOOLEAN
    /\ on_key_decode_error \in BOOLEAN
    /\ on_value_decode_error \in BOOLEAN
    /\ _dirty_events = <<>>
    /\ _acked = <<>>
    /\ _current_offset = None
    /\ commit_pc = "none"
    /\ offset = None
    /\ commit_log = <<>>
    /\ rx_pc = "idle"
    /\ message = NoMessage
    /\ raised = "none"
    /\ handler_calls = 0
    /\ callback_calls = 0
    /\ last_delivered = None

\* ------------------------------------------------------------------------
\* Lifecycle

\* Service start: register_timers schedules _commit_handler.  The first
\* asyncio.sleep of the handler is not awaited, so the task begins at the
\* top of its loop.
register_timers ==
    /\ state = "Created"
    /\ state' = "Running"
    /\ commit_pc' = "ready"
    /\ UNCHANGED <<config_vars, table_vars, _dirty_events, _acked,
                   _current_offset, offset, commit_log, rx_vars>>

\* Service stop.  register_timers drops the task returned by ensure_future
\* and the handler loops on `while 1`, so the commit task is left as it is.
Stop ==
    /\ state = "Running"
    /\ state' = "Stopped"
    /\ UNCHANGED <<config_vars, table_vars, _dirty_events, _acked,
                   commit_vars, rx_vars>>

\* ------------------------------------------------------------------------
\* Receive path: on_message

\* to_KV: the exception it raises for message m, or "none".
to_KV(m) ==
    IF _key_serializer /\ ~m.key_ok THEN "KeyDecodeError"
    ELSE IF ~m.value_ok THEN "ValueDecodeError"
    ELSE "none"

\* The test written without its `not`.
key_error_reraised_inverted == on_key_decode_error

\* `if not self.on_key_decode_error: raise`
key_error_reraised == ~on_key_decode_error

\* `if not self.on_value_decode_error: raise`
value_error_reraised == ~on_value_decode_error

\* on_message(m) up to its first suspension point (or its raise).
on_message(m) ==
    /\ state = "Running"
    /\ rx_pc = "idle"
    /\ m.offset > last_delivered
    /\ message' = m
    /\ last_delivered' = m.offset
    /\ LET exc == to_KV(m) IN
       CASE exc = "KeyDecodeError" /\ key_error_reraised ->
              /\ raised' = "KeyDecodeError"
              /\ rx_pc' = "idle"
              /\ handler_calls' = 0
              /\ callback_calls' = 0
              /\ UNCHANGED _dirty_events
         [] exc = "KeyDecodeError" /\ ~key_error_reraised ->
              /\ raised' = "none"
              /\ rx_pc' = "key_handler"
              /\ handler_calls' = 1
              /\ callback_calls' = 0
              /\ UNCHANGED _dirty_events
         [] exc = "ValueDecodeError" /\ value_error_reraised ->
              /\ raised' = "ValueDecodeError"
              /\ rx_pc' = "idle"
              /\ handler_calls' = 0
              /\ callback_calls' = 0
              /\ UNCHANGED _dirty_events
         [] exc = "ValueDecodeError" /\ ~value_error_reraised ->
              /\ raised' = "none"
              /\ rx_pc' = "value_handler"
              /\ handler_calls' = 1
              /\ callback_calls' = 0
              /\ UNCHANGED _dirty_events
         [] OTHER ->
              /\ raised' = "none"
              /\ _dirty_events' = track_event(_dirty_events, m.offset)
              /\ rx_pc' = "callback"
              /\ handler_calls' = 0
              /\ callback_calls' = 1
    /\ UNCHANGED <<state, config_vars, table_vars, _acked, commit_vars>>

Messages == [offset : Offsets, key_ok : BOOLEAN, value_ok : BOOLEAN]

Receive == \E m \in Messages : on_message(m)

\* The awaited decode-error handler returns; on_message goes on to
\* track_event(v, message.offset) with k and v never bound.
HandlerReturns ==
    /\ rx_pc \in {"key_handler", "value_handler"}
    /\ raised' = "UnboundLocalError"
    /\ rx_pc' = "idle"
    /\ UNCHANGED <<state, config_vars, table_vars, _dirty_events, _acked,
                   commit_vars, message, handler_calls, callback_calls,
                   last_delivered>>

\* The event of the running callback: the last one tracked.
InCallback(i) == rx_pc = "callback" /\ i = Len(_dirty_events)

\* The awaited callback returns and on_message completes.  When the
\* application kept no reference the event dies with the frame and its
\* EventRef callback runs at once.
CallbackReturns(retained) ==
    /\ rx_pc = "callback"
    /\ rx_pc' = "idle"
    /\ raised' = "none"
    /\ LET i == Len(_dirty_events) IN
       IF retained
       THEN UNCHANGED <<_dirty_events, _acked>>
       ELSE /\ _dirty_events' = [_dirty_events EXCEPT ![i].alive = FALSE]
            /\ _acked' = on_event_ready(_acked, _dirty_events[i].offset)
    /\ UNCHANGED <<state, config_vars, table_vars, commit_vars, message,
                   handler_calls, callback_calls, last_delivered>>

CallbackDone == \E retained \in BOOLEAN : CallbackReturns(retained)

\* A release that also moves the commit state to the released offset.
Release_advancing(i) ==
    /\ _dirty_events[i].alive
    /\ ~InCallback(i)
    /\ _dirty_events' = [_dirty_events EXCEPT ![i].alive = FALSE]
    /\ _acked' = on_event_ready(_acked, _dirty_events[i].offset)
    /\ _current_offset' = _dirty_events[i].offset
    /\ UNCHANGED <<state, config_vars, table_vars, commit_pc, offset,
                   commit_log, rx_vars>>

\* The application drops its last reference to a retained event.
Release(i) ==
    /\ _dirty_events[i].alive
    /\ ~InCallback(i)
    /\ _dirty_events' = [_dirty_events EXCEPT ![i].alive = FALSE]
    /\ _acked' = on_event_ready(_acked, _dirty_events[i].offset)
    /\ UNCHANGED <<state, config_vars, table_vars, commit_vars, rx_vars>>

ReleaseEvent == \E i \in 1..Len(_dirty_events) : Release(i)

\* ------------------------------------------------------------------------
\* Commit loop: _commit_handler

\* One pass of the loop body up to its next suspension point.
CommitTick ==
    /\ commit_pc = "ready"
    /\ LET new == _new_offset(_acked) IN
       IF new = IndexError
       THEN /\ commit_pc' = "sleep"
            /\ UNCHANGED <<_current_offset, offset, commit_log>>
       ELSE /\ offset' = new
            /\ IF _should_commit(_current_offset, new)
               THEN /\ _current_offset' = new
                    /\ commit_log' = Append(commit_log,
                                        [offset |-> new, status |-> "pending"])
                    /\ commit_pc' = "commit"
               ELSE /\ commit_pc' = "sleep"
                    /\ UNCHANGED <<_current_offset, commit_log>>
    /\ UNCHANGED <<state, config_vars, table_vars, _dirty_events, _acked,
                   rx_vars>>

\* `await self._commit(offset)` returns.
CommitSucceeds ==
    /\ commit_pc = "commit"
    /\ commit_log' = [commit_log EXCEPT ![Len(commit_log)].status = "ok"]
    /\ commit_pc' = "sleep"
    /\ UNCHANGED <<state, config_vars, table_vars, _dirty_events, _acked,
                   _current_offset, offset, rx_vars>>

\* `await self._commit(offset)` raises: nothing in the loop catches it.
CommitFails ==
    /\ commit_pc = "commit"
    /\ commit_log' = [commit_log EXCEPT ![Len(commit_log)].status = "failed"]
    /\ commit_pc' = "dead"
    /\ UNCHANGED <<state, config_vars, table_vars, _dirty_events, _acked,
                   _current_offset, offset, rx_vars>>

\* `await asyncio.sleep(self.commit_interval)` returns.
Wake ==
    /\ commit_pc = "sleep"
    /\ commit_pc' = "ready"
    /\ UNCHANGED <<state, config_vars, table_vars, _dirty_events, _acked,
                   _current_offset, offset, commit_log, rx_vars>>

Next ==
    \/ register_timers
    \/ Stop
    \/ Receive
    \/ HandlerReturns
    \/ CallbackDone
    \/ ReleaseEvent
    \/ CommitTick
    \/ CommitSucceeds
    \/ CommitFails
    \/ Wake

Spec == Init /\ [][Next]_vars

\* The commit loop and the timer are scheduled by the event loop: a woken
\* task runs, a sleep ends, an awaited backend call resolves.
FairSpec ==
    /\ Spec
    /\ WF_vars(CommitTick)
    /\ WF_vars(Wake)
    /\ WF_vars(CommitSucceeds \/ CommitFails)

\* ------------------------------------------------------------------------
\* The tracker on its own: any ascending acknowledged list, any further
\* acknowledgment (redelivered offsets included), and the commit loop.

SortedLists ==
    {s \in UNION {[1..n -> Offsets] : n \in 0..MaxLen} : IsSorted(s)}

AckInit ==
    /\ state = "Running"
    /\ topic = [topics |-> TRUE, pattern |-> FALSE]
    /\ callback = TRUE
    /\ init_raised = "none"
    /\ process = Identity
    /\ on_init
    /\ _key_serializer = TRUE
    /\ on_key_decode_error = FALSE
    /\ on_value_decode_error = FALSE
    /\ _acked \in SortedLists
    /\ _dirty_events = [i \in 1..Len(_acked) |->
                            [offset |-> _acked[i], alive |-> FALSE]]
    /\ _current_offset = None
    /\ commit_pc = "ready"
    /\ offset = None
    /\ commit_log = <<>>
    /\ rx_pc = "idle"
    /\ message = NoMessage
    /\ raised = "none"
    /\ handler_calls = 0
    /\ callback_calls = 0
    /\ last_delivered = None

\* An event tracked with offset `off` is released: its EventRef callback runs.
Ack(off) ==
    /\ Len(_acked) < MaxLen
    /\ _dirty_events' = Append(_dirty_events, [offset |-> off, alive |-> FALSE])
    /\ _acked' = on_event_ready(_acked, off)
    /\ UNCHANGED <<state, config_vars, table_vars, commit_vars, rx_vars>>

AckAny == \E off \in Offsets : Ack(off)

AckNext ==
    \/ AckAny
    \/ CommitTick
    \/ CommitSucceeds
    \/ Wake

AckSpec == AckInit /\ [][AckNext]_vars

\* ------------------------------------------------------------------------
\* Construction: Consumer.__init__

\* The check skipped.
topic_conflict_unchecked == FALSE

\* `if self.topic.topics and self.topic.pattern:`
topic_conflict == topic.topics /\ topic.pattern

consumer_vars == <<_dirty_events, _acked, commit_vars, rx_vars>>

\* Consumer.__init__: the callback assertion, then the topic check; the
\* lists are created and the Service initialised only after both.
Consumer_init ==
    /\ state = "Unconstructed"
    /\ IF ~callback
       THEN /\ init_raised' = "AssertionError"
            /\ state' = "Failed"
       ELSE IF topic_conflict
       THEN /\ init_raised' = "TypeError"
            /\ state' = "Failed"
       ELSE /\ init_raised' = "none"
            /\ state' = "Created"
    /\ UNCHANGED <<topic, callback, _key_serializer, on_key_decode_error,
                   on_value_decode_error, table_vars, consumer_vars>>

CtorInit ==
    /\ state = "Unconstructed"
    /\ topic \in [topics : BOOLEAN, pattern : BOOLEAN]
    /\ callback \in BOOLEAN
    /\ init_raised = "none"
    /\ process = Identity
    /\ on_init
    /\ _key_serializer \in BOOLEAN
    /\ on_key_decode_error \in BOOLEAN
    /\ on_value_decode_error \in BOOLEAN
    /\ _dirty_events = <<>>
    /\ _acked = <<>>
    /\ _current_offset = None
    /\ commit_pc = "none"
    /\ offset = None
    /\ commit_log = <<>>
    /\ rx_pc = "idle"
    /\ message = NoMessage
    /\ raised = "none"
    /\ handler_calls = 0
    /\ callback_calls = 0
    /\ last_delivered = None

CtorNext == Consumer_init \/ Next

CtorSpec == CtorInit /\ [][CtorNext]_vars

\* ------------------------------------------------------------------------
\* Table

\* dict item assignment: d[key] = value
setitem(st, key, value) ==
    [k \in DOMAIN st \cup {key} |-> IF k = key THEN value ELSE st[k]]

\* del d[key], for a key of d
delitem(st, key) == [k \in DOMAIN st \ {key} |-> st[k]]

\* The value stored as it came in.
processed_raw(key, value) == value

\* `await self.process(key, value)`
processed(key, value) == process[key, value]

\* self._state[key] raises KeyError
missing_key(st, key) == key \notin DOMAIN st

\* A removal that passes over a missing key, as dict.pop(key, None) does.
delitem_silent(st, key) == FALSE

\* del self._state[key] raises KeyError
delitem_raises(st, key) == key \notin DOMAIN st

not_table_vars == <<state, config_vars, consumer_vars>>

\* Table.on_message up to `await self.process(key, value)`.
Table_on_message(key, value) ==
    /\ table_pc = "idle"
    /\ table_pc' = "process"
    /\ table_msg' = [key |-> key, value |-> value]
    /\ table_op' = [name |-> "on_message", key |-> key]
    /\ table_raised' = "none"
    /\ UNCHANGED <<_state, process, table_result, not_table_vars>>

TableReceive ==
    \E key \in Keys, value \in Values : Table_on_message(key, value)

\* process returns and the result is stored under the message's key.
TableProcessed ==
    /\ table_pc = "process"
    /\ _state' = setitem(_state, table_msg.key,
                         processed(table_msg.key, table_msg.value))
    /\ table_pc' = "idle"
    /\ UNCHANGED <<process, table_msg, table_op, table_raised, table_result,
                   not_table_vars>>

\* Table.__getitem__
getitem(key) ==
    /\ table_op' = [name |-> "get", key |-> key]
    /\ IF missing_key(_state, key)
       THEN /\ table_raised' = "KeyError"
            /\ UNCHANGED table_result
       ELSE /\ table_raised' = "none"
            /\ table_result' = _state[key]
    /\ UNCHANGED <<_state, process, table_pc, table_msg, not_table_vars>>

TableGet == \E key \in Keys : getitem(key)

\* Table.__setitem__
Table_setitem(key, value) ==
    /\ table_op' = [name |-> "set", key |-> key]
    /\ table_raised' = "none"
    /\ _state' = setitem(_state, key, value)
    /\ UNCHANGED <<process, table_pc, table_msg, table_result,
                   not_table_vars>>

TableSet == \E key \in Keys, value \in Values : Table_setitem(key, value)

\* Table.__delitem__
Table_delitem(key) ==
    /\ table_op' = [name |-> "delete", key |-> key]
    /\ IF delitem_raises(_state, key)
       THEN /\ table_raised' = "KeyError"
            /\ UNCHANGED _state
       ELSE /\ table_raised' = "none"
            /\ _state' = delitem(_state, key)
    /\ UNCHANGED <<process, table_pc, table_msg, table_result,
                   not_table_vars>>

TableDelete == \E key \in Keys : Table_delitem(key)

\* process transforms a Table is tried with: the identity, a rotation of
\* the values, a rotation for one key only, and a constant.
Rotate(v) == (v % MaxValue) + 1

Transforms ==
    { Identity,
      [k \in Keys, v \in Values |-> Rotate(v)],
      [k \in Keys, v \in Values |-> IF k = "a" THEN Rotate(v) ELSE v],
      [k \in Keys, v \in Values |-> 1] }

\* A Table after on_init, with one of the process transforms; its Consumer is
\* constructed and left alone.
TableInit ==
    /\ on_init
    /\ process \in Transforms
    /\ state = "Created"
    /\ topic = [topics |-> TRUE, pattern |-> FALSE]
    /\ callback = TRUE
    /\ init_raised = "none"
    /\ _key_serializer = TRUE
    /\ on_key_decode_error = FALSE
    /\ on_value_decode_error = FALSE
    /\ _dirty_events = <<>>
    /\ _acked = <<>>
    /\ _current_offset = None
    /\ commit_pc = "none"
    /\ offset = None
    /\ commit_log = <<>>
    /\ rx_pc = "idle"
    /\ message = NoMessage
    /\ raised = "none"
    /\ handler_calls = 0
    /\ callback_calls = 0
    /\ last_delivered = None

TableNext ==
    \/ TableReceive
    \/ TableProcessed
    \/ TableGet
    \/ TableSet
    \/ TableDelete

TableSpec == TableInit /\ [][TableNext]_vars

\* ------------------------------------------------------------------------
\* Properties

Tracked == 1..Len(_dirty_events)
AckedSet(acked) == {acked[i] : i \in 1..Len(acked)}
LastCommit == commit_log[Len(commit_log)]
Committed(n) == \E i \in 1..Len(commit_log) : commit_log[i].offset = n

\* The highest r such that every integer from the minimum of the list to r
\* is in the list.
HighestContiguous(acked) ==
    LET S == AckedSet(acked)
        lo == CHOOSE x \in S : \A y \in S : x <= y
    IN  CHOOSE r \in S :
            /\ \A k \in lo..r : k \in S
            /\ r + 1 \notin S

\* C1: while an offset c is being committed to the backend, every message
\* dispatched with an offset <= c has been acknowledged (its event released).
C1_CommitCoversOnlyAcked ==
    commit_pc = "commit" =>
        \A i \in Tracked :
            _dirty_events[i].offset <= offset => ~_dirty_events[i].alive

\* C2: for every non-empty ascending acknowledged list, _new_offset returns
\* the highest offset contiguous from the minimum of the list.
C2_HighestContiguousFromMin ==
    _acked # <<>> => _new_offset(_acked) = HighestContiguous(_acked)

\* Offsets 0..n and no others were delivered and dispatched in order, every
\* callback returned and every event was released; the Consumer is running.
AllReleased(n) ==
    /\ state = "Running"
    /\ rx_pc = "idle"
    /\ last_delivered = n
    /\ Len(_dirty_events) = n + 1
    /\ \A i \in Tracked :
           _dirty_events[i].offset = i - 1 /\ ~_dirty_events[i].alive

CommitFailed == \E i \in 1..Len(commit_log) : commit_log[i].status = "failed"

\* C3: once offsets 0..n are dispatched and all released, the commit loop
\* eventually commits n (unless more is dispatched, the Consumer is stopped
\* or a backend commit fails).
C3_EventuallyCommitsLast ==
    \A n \in Offsets :
        AllReleased(n) ~> (Committed(n) \/ ~AllReleased(n) \/ CommitFailed)

\* C4: the offsets passed to the backend commit are strictly increasing.
C4_CommitsStrictlyIncreasing ==
    \A i, j \in 1..Len(commit_log) :
        i < j => commit_log[i].offset < commit_log[j].offset

\* A tick found a safe offset below the committed one and let it pass.
C4_Witness ==
    /\ commit_log # <<>>
    /\ commit_pc = "sleep"
    /\ offset < LastCommit.offset
    /\ offset \in AckedSet(_acked)

\* C5: acknowledging once more an offset already in the acknowledged list
\* leaves the outcome of _new_offset (offset or IndexError) as it was.
C5_DuplicateAckIdempotent ==
    [][\A off \in AckedSet(_acked) :
          _acked' = on_event_ready(_acked, off)
              => _new_offset(_acked') = _new_offset(_acked)]_vars

\* A list with a repeated offset for which _new_offset returns an offset.
C5_Witness ==
    /\ \E i \in 1..(Len(_acked) - 1) : _acked[i] = _acked[i + 1]
    /\ _new_offset(_acked) # IndexError
    /\ Len(_dirty_events) > Len(_acked) - 1
    /\ commit_log # <<>>

IsTracked(m) == \E i \in Tracked : _dirty_events[i].offset = m.offset

\* C6: once on_message has ended for a message whose decode error went to a
\* supplied handler, the handler ran once, nothing was tracked, the callback
\* did not run and on_message did not raise.
C6_HandledDecodeErrorDropsMessage ==
    (rx_pc = "idle" /\ handler_calls > 0) =>
        /\ handler_calls = 1
        /\ callback_calls = 0
        /\ ~IsTracked(message)
        /\ raised = "none"

\* on_message is entered with a message whose key fails to decode while no
\* on_key_decode_error handler is registered.
KeyErrorUnhandledStep ==
    /\ rx_pc = "idle"
    /\ last_delivered' # last_delivered
    /\ _key_serializer
    /\ ~message'.key_ok
    /\ ~on_key_decode_error

\* C7: a key decode failure with no handler registered makes on_message
\* raise KeyDecodeError, with no callback call and the tracked and
\* acknowledged lists unchanged.
C7_UnhandledKeyErrorPropagates ==
    [][KeyErrorUnhandledStep =>
          /\ raised' = "KeyDecodeError"
          /\ rx_pc' = "idle"
          /\ callback_calls' = 0
          /\ handler_calls' = 0
          /\ UNCHANGED <<_dirty_events, _acked>>]_vars

C7_Witness ==
    /\ raised = "KeyDecodeError"
    /\ ~message.key_ok
    /\ ~on_key_decode_error
    /\ _dirty_events # <<>>
    /\ _acked # <<>>
    /\ ~IsTracked(message)

\* C8: a failed backend commit leaves the commit loop running.
C8_FailedCommitKeepsLoopRunning ==
    (commit_log # <<>> /\ LastCommit.status = "failed") =>
        commit_pc \in {"ready", "sleep", "commit"}

\* C9: _current_offset only holds an offset whose backend commit succeeded.
C9_CurrentOffsetIsConfirmed ==
    _current_offset # None =>
        \E i \in 1..Len(commit_log) :
            /\ commit_log[i].offset = _current_offset
            /\ commit_log[i].status = "ok"

\* C10: once the Consumer is Stopped no commit tick runs and no backend
\* commit is issued.
C10_StoppedLoopIsCancelled ==
    [][state = "Stopped" =>
          /\ commit_log' = commit_log
          /\ commit_pc' = commit_pc
          /\ _current_offset' = _current_offset]_vars

\* Table.on_message's store step: process has returned for table_msg.
StoreStep == table_pc = "process" /\ table_pc' = "idle"

\* C11: Table.on_message ends with one store mutation: state[key] is
\* process(key, value) and every other key is as it was, whatever was
\* set under that key before.
C11_OnMessageStoresProcessed ==
    [][/\ (table_pc = "idle" /\ table_pc' = "process") => _state' = _state
       /\ StoreStep =>
          /\ DOMAIN _state' = DOMAIN _state \cup {table_msg.key}
          /\ _state'[table_msg.key] = process[table_msg.key, table_msg.value]
          /\ \A k \in DOMAIN _state \ {table_msg.key} :
                 _state'[k] = _state[k]]_vars

\* A message has been folded in under its key with a processed value that
\* differs from the raw one, beside another key that is in the store.
C11_Witness ==
    /\ table_op.name = "on_message"
    /\ table_pc = "idle"
    /\ DOMAIN _state = Keys
    /\ _state[table_msg.key] = process[table_msg.key, table_msg.value]
    /\ _state[table_msg.key] # table_msg.value

\* A get or delete is run for a key that is not in the store.
MissingKeyStep ==
    /\ table_pc' = table_pc
    /\ table_op'.name \in {"get", "delete"}
    /\ table_op'.key \notin DOMAIN _state

\* C12: get and delete of a key that is not in the store fail with
\* KeyError and leave the store unchanged.
C12_MissingKeyFails ==
    [][MissingKeyStep =>
          /\ table_raised' = "KeyError"
          /\ _state' = _state]_vars

\* A get of a missing key has failed on a store that holds another key.
C12_Witness ==
    /\ table_op.name = "get"
    /\ table_op.key \notin DOMAIN _state
    /\ table_raised = "KeyError"
    /\ _state # EmptyStore

\* C13: constructing a Consumer whose topic sets both topics and pattern
\* fails (TypeError, or the callback assertion before it), leaves no
\* Consumer and touches the backend in no way.
C13_TopicConflictFailsConstruction ==
    (state # "Unconstructed" /\ topic.topics /\ topic.pattern) =>
        /\ state = "Failed"
        /\ init_raised \in {"TypeError", "AssertionError"}
        /\ callback => init_raised = "TypeError"
        /\ commit_pc = "none"
        /\ commit_log = <<>>
        /\ last_delivered = None
        /\ _dirty_events = <<>>

C13_Witness ==
    /\ state = "Failed"
    /\ topic.topics /\ topic.pattern
    /\ init_raised = "TypeError"

\* C14: with exactly one distinct acknowledged offset _new_offset returns
\* that offset, and it raises IndexError only for the empty list.
C14_SingleOffsetReturned ==
    /\ Cardinality(AckedSet(_acked)) = 1
           => _new_offset(_acked) \in AckedSet(_acked)
    /\ _new_offset(_acked) = IndexError => _acked = <<>>

\* The commit loop runs one pass of its body.
TickStep == commit_pc = "ready" /\ commit_pc' # "ready"

\* C15: a commit tick taken while the acknowledged list is empty issues no
\* backend commit, leaves _current_offset and the list unchanged, and goes
\* to sleep for the next tick.
C15_EmptyTickSkipped ==
    [][(TickStep /\ _acked = <<>>) =>
          /\ commit_pc' = "sleep"
          /\ commit_log' = commit_log
          /\ _current_offset' = _current_offset
          /\ _acked' = _acked]_vars

\* The loop sleeps after a tick on an empty list, with a dispatched event
\* still held.
C15_Witness ==
    /\ commit_pc = "sleep"
    /\ _acked = <<>>
    /\ _dirty_events # <<>>
    /\ commit_log = <<>>

Occurrences(acked, off) == Cardinality({i \in 1..Len(acked) : acked[i] = off})

ReleasedWith(off) ==
    Cardinality({i \in Tracked : /\ _dirty_events[i].offset = off
                                 /\ ~_dirty_events[i].alive})

Decoded(m) == m # NoMessage /\ to_KV(m) = "none"

\* C17: a decoded message is tracked with its offset and its callback is
\* invoked exactly once; while the callback runs the event is tracked and
\* alive and on_message has not completed; events are tracked in receive
\* order.
C17_TrackThenCallbackOnce ==
    /\ Decoded(message) =>
           /\ callback_calls = 1
           /\ _dirty_events # <<>>
           /\ _dirty_events[Len(_dirty_events)].offset = message.offset
           /\ raised = "none"
    /\ rx_pc = "callback" =>
           /\ Decoded(message)
           /\ _dirty_events[Len(_dirty_events)].alive
    /\ callback_calls > 0 => Decoded(message)
    /\ \A i, j \in Tracked :
           i < j => _dirty_events[i].offset < _dirty_events[j].offset

\* on_message has completed for the third decoded message.
C17_Witness ==
    /\ rx_pc = "idle"
    /\ Decoded(message)
    /\ callback_calls = 1
    /\ Len(_dirty_events) = 3

\* A step of on_message, of a decode-error handler, of the callback's
\* return, or of an EventRef callback.
ReceivePathStep ==
    \/ rx_vars' # rx_vars
    \/ _dirty_events' # _dirty_events
    \/ _acked' # _acked

\* C18: the decode / dispatch path and on_event_ready leave
\* _current_offset unchanged.
C18_ReceivePathKeepsCommitState ==
    [][ReceivePathStep => _current_offset' = _current_offset]_vars

\* An offset below the committed one was acknowledged after the commit,
\* and a callback is running.
C18_Witness ==
    /\ _current_offset # None
    /\ \E off \in AckedSet(_acked) : off < _current_offset
    /\ rx_pc = "callback"

\* C19: the acknowledged list is in ascending order in every state and
\* only grows: no occurrence of an offset is ever removed.
C19_AckedSortedAndGrowing ==
    /\ [](IsSorted(_acked))
    /\ [][/\ Len(_acked') >= Len(_acked)
          /\ \A off \in Offsets :
                 Occurrences(_acked', off) >= Occurrences(_acked, off)]_vars

\* Three offsets acknowledged, the lowest after a higher one was committed.
C19_Witness ==
    /\ Len(_acked) >= 3
    /\ commit_log # <<>>
    /\ _acked[1] < commit_log[1].offset
    /\ commit_pc = "ready"

\* C20: every offset passed to the backend commit and every value of
\* _current_offset is in the acknowledged list: the offset of a dispatched
\* message whose event was released.
C20_CommittedOffsetsAreAcked ==
    /\ _current_offset # None =>
           /\ _current_offset \in AckedSet(_acked)
           /\ ReleasedWith(_current_offset) > 0
    /\ \A i \in 1..Len(commit_log) :
           /\ commit_log[i].offset \in AckedSet(_acked)
           /\ ReleasedWith(commit_log[i].offset) > 0

\* A backend commit has succeeded.
C20_Witness ==
    /\ commit_log # <<>>
    /\ LastCommit.status = "ok"
    /\ _current_offset = LastCommit.offset

====
